---- MODULE Spec2Model ----
(***************************************************************************)
(* A model of github-notifications: the caching fetch client of            *)
(* src/src/github.rs (to_filename, cache_is_fresh, Client::get and the     *)
(* operations built on it) and the classifier of src/src/main.rs           *)
(* (NotificationLevel::of).                                                *)
(*                                                                         *)
(* Text (URLs, file names) is a sequence of one-character strings.  A      *)
(* response body is named by a string; Doc gives the JSON document the     *)
(* text holds, and the decoders work on that document.  Time is counted    *)
(* in whole seconds.                                                       *)
(***************************************************************************)
EXTENDS Integers, Sequences, FiniteSets, TLC

(***************************************************************************)
(* Bounds of the model.                                                    *)
(***************************************************************************)
\* The number of operations (fetches, classifications) of a wide behaviour:
\* one that draws every input and every fault of the environment.
MaxOps == 2
\* The number of operations of a deep behaviour: one that fetches the
\* pull-request URLs only, with no fault of the environment.
MaxDeepOps == 3
\* The length of the generated paths given to to_filename.
MaxPathLen == 2

(***************************************************************************)
(* Text.                                                                   *)
(***************************************************************************)
Lower ==
    {"a","b","c","d","e","f","g","h","i","j","k","l","m",
     "n","o","p","q","r","s","t","u","v","w","x","y","z"}

Digit == {"0","1","2","3","4","5","6","7","8","9"}

\* github.rs:9
API_PREFIX ==
    <<"h","t","t","p","s",":","/","/","a","p","i",".",
      "g","i","t","h","u","b",".","c","o","m","/">>

\* github.rs:10
NOTIFICATIONS_URL ==
    API_PREFIX \o <<"n","o","t","i","f","i","c","a","t","i","o","n","s">>

\* github.rs:11
SELF_URL == API_PREFIX \o <<"u","s","e","r">>

\* str::strip_prefix: the rest of s after prefix p, when s starts with p.
HasPrefix(s, p) ==
    /\ Len(s) >= Len(p)
    /\ SubSeq(s, 1, Len(p)) = p

StripPrefixOrSame(s, p) ==
    IF HasPrefix(s, p) THEN SubSeq(s, Len(p) + 1, Len(s)) ELSE s

\* str::replace('/', "__")
RECURSIVE ReplaceSlash(_)
ReplaceSlash(s) ==
    IF s = <<>> THEN <<>>
    ELSE (IF Head(s) = "/" THEN <<"_", "_">> ELSE <<Head(s)>>)
             \o ReplaceSlash(Tail(s))

\* The characters the closure of github.rs:19 keeps.
KeptChar(c) == c \in Lower \cup Digit \cup {".", "_"}

\* str::replace(|c| !matches!(..), ""): drop every character not kept.
RECURSIVE DropOthers(_)
DropOthers(s) ==
    IF s = <<>> THEN <<>>
    ELSE (IF KeptChar(Head(s)) THEN <<Head(s)>> ELSE <<>>)
             \o DropOthers(Tail(s))

\* A to_filename that forgets to strip the API prefix.
to_filename_nostrip(url) == DropOthers(ReplaceSlash(url))

\* to_filename: the file name under the cache directory (the directory itself
\* is the same for every URL).
to_filename(url) ==
    DropOthers(ReplaceSlash(StripPrefixOrSame(url, API_PREFIX)))

(***************************************************************************)
(* The resource URLs of the model.  PullA and PullB are two pull requests  *)
(* of the repositories a-b/c and ab/c; IssueA is an issue of o/r.          *)
(***************************************************************************)
PullA ==
    API_PREFIX \o <<"r","e","p","o","s","/","a","-","b","/","c","/",
                    "p","u","l","l","s","/","1">>

PullB ==
    API_PREFIX \o <<"r","e","p","o","s","/","a","b","/","c","/",
                    "p","u","l","l","s","/","1">>

IssueA ==
    API_PREFIX \o <<"r","e","p","o","s","/","o","/","r","/",
                    "i","s","s","u","e","s","/","2">>

UrlList == <<NOTIFICATIONS_URL, SELF_URL, PullA, PullB, IssueA>>

Urls == {UrlList[i] : i \in 1..Len(UrlList)}

\* The names under which the state shows the URLs.
UrlNameList == <<"notifications", "user", "pull_a", "pull_b", "issue_a">>

UrlNames == {UrlNameList[i] : i \in 1..Len(UrlNameList)}

UrlName ==
    [u \in Urls |-> UrlNameList[CHOOSE i \in 1..Len(UrlList) : UrlList[i] = u]]

\* The cache file of every URL of the model: to_filename(url), shown in the
\* state under the name of the first URL of UrlList that has this file name.
\* Two URLs have the same cache file exactly when to_filename maps them to
\* the same name.
Filename ==
    LET name == [u \in Urls |-> to_filename(u)] IN
    [u \in Urls |->
        LET first == CHOOSE i \in 1..Len(UrlList) :
                        /\ name[UrlList[i]] = name[u]
                        /\ \A j \in 1..(i - 1) : name[UrlList[j]] # name[u]
        IN  UrlNameList[first]]

Keys == {Filename[u] : u \in Urls}

(***************************************************************************)
(* Response bodies and the documents they hold.                            *)
(***************************************************************************)
\* github.rs:53-56
UserFields == {"id", "login"}

\* github.rs:71-79
IssueFields ==
    {"url", "id", "number", "state", "locked", "title", "html_url"}

\* github.rs:59-68
PullRequestFields == IssueFields \cup {"requested_reviewers"}

\* One element of the notification list, as the JSON text gives it.
RawNotif(reason, stype, url) ==
    [reason |-> reason, stype |-> stype, url |-> url]

Bodies ==
    {"user7", "user42", "pr_none", "pr_9_42", "issue", "notifs",
     "err401", "html502"}

\* The JSON document of a body: its shape, the keys of a top-level object,
\* the values the decoders read, and the HTTP status it came with.
Doc(b) ==
    CASE b = "user7" ->
           [shape |-> "object", fields |-> UserFields, id |-> 7,
            reviewers |-> <<>>, items |-> <<>>, status |-> 200]
      [] b = "user42" ->
           [shape |-> "object", fields |-> UserFields, id |-> 42,
            reviewers |-> <<>>, items |-> <<>>, status |-> 200]
      [] b = "pr_none" ->
           [shape |-> "object", fields |-> PullRequestFields, id |-> 42,
            reviewers |-> <<>>, items |-> <<>>, status |-> 200]
      [] b = "pr_9_42" ->
           [shape |-> "object", fields |-> PullRequestFields, id |-> 7,
            reviewers |-> <<9, 42>>, items |-> <<>>, status |-> 200]
      [] b = "issue" ->
           [shape |-> "object", fields |-> IssueFields, id |-> 200,
            reviewers |-> <<>>, items |-> <<>>, status |-> 200]
      [] b = "notifs" ->
           [shape |-> "array", fields |-> {}, id |-> 0, reviewers |-> <<>>,
            items |-> << RawNotif("review_requested", "PullRequest", PullA),
                         RawNotif("approval_requested", "Issue", IssueA),
                         RawNotif("review_requested", "PullRequest", PullB) >>,
            status |-> 200]
      [] b = "err401" ->
           [shape |-> "object", fields |-> {"message", "documentation_url"},
            id |-> 0, reviewers |-> <<>>, items |-> <<>>, status |-> 401]
      [] OTHER ->
           [shape |-> "invalid", fields |-> {}, id |-> 0, reviewers |-> <<>>,
            items |-> <<>>, status |-> 502]

\* The responses the server gives for a URL: the resource in one of its
\* states, or an error response (401 with a JSON error object, 502 with an
\* HTML page).
ResponsesOf(url) ==
    (CASE url = NOTIFICATIONS_URL -> {"notifs"}
       [] url = SELF_URL -> {"user7", "user42"}
       [] url = IssueA -> {"issue"}
       [] OTHER -> {"pr_none", "pr_9_42"})
    \cup {"err401", "html502"}

(***************************************************************************)
(* Decoding (serde): a struct decodes from an object that has every one of *)
(* its fields, other keys being ignored; the notification list decodes     *)
(* from an array whose every element decodes.                              *)
(***************************************************************************)
\* github.rs:124-139, with rename_all = "snake_case" and #[serde(other)].
KnownReasons ==
    {"assign", "author", "comment", "ci_activity", "invitation", "manual",
     "mention", "review_requested", "security_alert", "state_change",
     "subscribed", "team_mention"}

\* NotificationReason without #[serde(other)]: an unknown reason is no
\* variant.
NotificationReason_no_other(str) ==
    IF str \in KnownReasons THEN str ELSE "invalid"

NotificationReason(str) == IF str \in KnownReasons THEN str ELSE "other"

\* github.rs:142-145: no catch-all variant.
SubjectTypes == {"PullRequest", "Issue"}

NoValue == [ty |-> "none", id |-> 0, reviewers |-> <<>>, items |-> <<>>]

Ok(v) == [kind |-> "Ok", val |-> v]

Err(k) == [kind |-> k, val |-> NoValue]

DecodeNotification(raw) ==
    [reason |-> NotificationReason(raw.reason), stype |-> raw.stype,
     url |-> raw.url]

\* serde_path_to_error::deserialize::<T> of the body text b (github.rs:227-228).
Deserialize(T, b) ==
    LET d == Doc(b) IN
    CASE T = "User" ->
           IF d.shape = "object" /\ UserFields \subseteq d.fields
           THEN Ok([ty |-> "User", id |-> d.id, reviewers |-> <<>>,
                    items |-> <<>>])
           ELSE Err("Deserialize")
      [] T = "PullRequest" ->
           IF d.shape = "object" /\ PullRequestFields \subseteq d.fields
           THEN Ok([ty |-> "PullRequest", id |-> d.id,
                    reviewers |-> d.reviewers, items |-> <<>>])
           ELSE Err("Deserialize")
      [] T = "Issue" ->
           IF d.shape = "object" /\ IssueFields \subseteq d.fields
           THEN Ok([ty |-> "Issue", id |-> d.id, reviewers |-> <<>>,
                    items |-> <<>>])
           ELSE Err("Deserialize")
      [] OTHER ->
           IF /\ d.shape = "array"
              /\ \A i \in 1..Len(d.items) : d.items[i].stype \in SubjectTypes
           THEN Ok([ty |-> "Notifications", id |-> 0, reviewers |-> <<>>,
                    items |-> [i \in 1..Len(d.items) |->
                                  DecodeNotification(d.items[i])]])
           ELSE Err("Deserialize")

(***************************************************************************)
(* The cache directory and the freshness check.                            *)
(***************************************************************************)
NoFile == [present |-> FALSE, body |-> "none", mtime |-> 0]

\* Option<Duration>
NoTtl == [some |-> FALSE, secs |-> 0]

Ttl(n) == [some |-> TRUE, secs |-> n]

\* github.rs:157
TTL_DETAILS == 60

\* github.rs:237
TTL_SELF == 60 * 60 * 24

\* What the network does with one request: the connection fails, the request
\* times out, or a response arrives whose text is one of Bodies.  During one
\* fetch the environment also decides whether the stat of Path::exists
\* succeeds (stat), whether fs::metadata succeeds (meta), whether the
\* platform gives the modification time (mtime), whether the file can be
\* read (read) and whether fs::write succeeds (write); before all that,
\* whether to_filename can create the cache directory (mkdir).
NetFailures == {"connect", "timeout"}

\* Path::exists: false when the file is absent and when it cannot be stat'ed.
PathExists(f, e) == f.present /\ e.stat

\* SystemTime::duration_since(..).unwrap_or(Duration::ZERO), github.rs:196
Since(t, modified) == IF t >= modified THEN t - modified ELSE 0

\* cache_is_fresh with "<=" for "<" in the comparison with the TTL.
cache_is_fresh_le(f, ttl, t, e) ==
    /\ PathExists(f, e)
    /\ \/ ~ttl.some
       \/ e.meta /\ e.mtime /\ Since(t, f.mtime) <= ttl.secs

\* cache_is_fresh taking a missing TTL for a TTL of zero.
cache_is_fresh_none_stale(f, ttl, t, e) ==
    /\ PathExists(f, e)
    /\ ttl.some /\ e.meta /\ e.mtime /\ Since(t, f.mtime) < ttl.secs

\* cache_is_fresh taking a file written in the same instant for fresh.
cache_is_fresh_zero_fresh(f, ttl, t, e) ==
    /\ PathExists(f, e)
    /\ \/ ~ttl.some
       \/ e.meta /\ e.mtime
            /\ (Since(t, f.mtime) < ttl.secs \/ Since(t, f.mtime) = 0)

\* cache_is_fresh taking a modification time it cannot read for the present
\* instant.
cache_is_fresh_unreadable_now(f, ttl, t, e) ==
    /\ PathExists(f, e)
    /\ \/ ~ttl.some
       \/ e.meta /\ (IF e.mtime THEN Since(t, f.mtime) ELSE 0) < ttl.secs

\* cache_is_fresh(path, ttl) at time t, f being the file at path.
cache_is_fresh(f, ttl, t, e) ==
    IF ~PathExists(f, e) THEN FALSE
    ELSE IF ~ttl.some THEN TRUE
    ELSE IF ~e.meta THEN FALSE
    ELSE IF ~e.mtime THEN FALSE
    ELSE Since(t, f.mtime) < ttl.secs

\* The environment of a fetch that is not made, and the value of every
\* component a fetch does not come to use.
DefaultEnv ==
    [mkdir |-> TRUE, stat |-> TRUE, meta |-> TRUE, mtime |-> TRUE,
     read |-> TRUE, net |-> "connect", write |-> TRUE]

\* The environments of one fetch of url, f being its cache file, the cache
\* directory being there: whether the metadata and the modification time of
\* an existing file can be read is a fact of the environment whatever the
\* TTL; the read, the network and the write are drawn for the branch the
\* fetch takes.
EnvsFor(url, f, ttl, t) ==
    UNION { UNION { UNION {
        LET e == [DefaultEnv EXCEPT !.stat = st, !.meta = me, !.mtime = mt] IN
        IF cache_is_fresh(f, ttl, t, e)
        THEN {[e EXCEPT !.read = rd] : rd \in BOOLEAN}
        ELSE {[e EXCEPT !.net = n] : n \in NetFailures \cup ResponsesOf(url)}
                 \cup {[e EXCEPT !.net = b, !.write = FALSE] :
                          b \in ResponsesOf(url)}
        : mt \in IF f.present /\ st /\ me THEN BOOLEAN ELSE {TRUE} }
        : me \in IF f.present /\ st THEN BOOLEAN ELSE {TRUE} }
        : st \in IF f.present THEN BOOLEAN ELSE {TRUE} }

\* The environments with no fault: every file operation succeeds and the
\* network answers with a pull request.
DeepBodies == {"pr_none", "pr_9_42"}

NoFault(e) ==
    /\ e.stat /\ e.meta /\ e.mtime /\ e.read /\ e.write
    /\ e.net \in DeepBodies \cup {"connect"}

DeepEnvsFor(url, f, ttl, t) ==
    {e \in EnvsFor(url, f, ttl, t) :
        /\ NoFault(e)
        /\ e.net = "connect" => cache_is_fresh(f, ttl, t, e)}

(***************************************************************************)
(* Client::get (github.rs:210-229).  Get gives the cache directory after   *)
(* the fetch and a record of what the fetch did.                           *)
(***************************************************************************)
\* What one fetch did: the branch taken (fresh), whether a request was made
\* (rq), the response text (rsp), whether it was written (wr), whether the
\* warning was printed (wn), the text given to the decoder and the result;
\* with it, what the environment let the fetch do.
FetchRec(url, ttl, T, t, f, e, fresh, rq, rsp, wr, wn, body, res) ==
    [url |-> UrlName[url], path |-> Filename[url], ttl |-> ttl, T |-> T,
     now |-> t, before |-> f, dirOk |-> e.mkdir,
     exists |-> PathExists(f, e), metaOk |-> e.meta, mtimeOk |-> e.mtime,
     readOk |-> e.read, fresh |-> fresh, requested |-> rq,
     response |-> rsp, wrote |-> wr, warned |-> wn, body |-> body,
     result |-> res]

\* fs::create_dir_all(&path).unwrap() of to_filename (github.rs:22), called
\* at github.rs:211: when the directory cannot be created the thread panics;
\* get returns nothing, no file is looked at and no request is made.
GetPanics(fs, t, url, ttl, T, e) ==
    [files |-> fs,
     rec |-> FetchRec(url, ttl, T, t, fs[Filename[url]], e, FALSE, FALSE,
                      "none", FALSE, FALSE, "none", Err("Panic"))]

\* The cache branch falling back to the network when the file cannot be
\* read.
GetFromCache_then_network(fs, t, url, ttl, T, e) ==
    LET f == fs[Filename[url]] IN
    [files |-> fs,
     rec |-> IF e.read
             THEN FetchRec(url, ttl, T, t, f, e, TRUE, FALSE, "none", FALSE,
                           FALSE, f.body, Deserialize(T, f.body))
             ELSE FetchRec(url, ttl, T, t, f, e, TRUE, TRUE, "none", FALSE,
                           FALSE, "none", Err("Reqwest"))]

\* The cache branch renewing the modification time of the file it reads.
GetFromCache_touch(fs, t, url, ttl, T, e) ==
    LET f == fs[Filename[url]] IN
    [files |-> IF e.read THEN [fs EXCEPT ![Filename[url]].mtime = t] ELSE fs,
     rec |-> IF e.read
             THEN FetchRec(url, ttl, T, t, f, e, TRUE, FALSE, "none", FALSE,
                           FALSE, f.body, Deserialize(T, f.body))
             ELSE FetchRec(url, ttl, T, t, f, e, TRUE, FALSE, "none", FALSE,
                           FALSE, "none", Err("Io"))]

\* The branch of github.rs:213-215.
GetFromCache(fs, t, url, ttl, T, e) ==
    LET f == fs[Filename[url]] IN
    [files |-> fs,
     rec |-> IF e.read
             THEN FetchRec(url, ttl, T, t, f, e, TRUE, FALSE, "none", FALSE,
                           FALSE, f.body, Deserialize(T, f.body))
             ELSE FetchRec(url, ttl, T, t, f, e, TRUE, FALSE, "none", FALSE,
                           FALSE, "none", Err("Io"))]

\* The network branch with "?" on fs::write: a failed write is returned.
GetFromNetwork_io_on_write(fs, t, url, ttl, T, e) ==
    LET path == Filename[url]
        f == fs[path]
    IN  IF e.net \in NetFailures
        THEN [files |-> fs,
              rec |-> FetchRec(url, ttl, T, t, f, e, FALSE, TRUE, "none",
                               FALSE, FALSE, "none", Err("Reqwest"))]
        ELSE IF e.write
        THEN [files |-> [fs EXCEPT ![path] =
                            [present |-> TRUE, body |-> e.net, mtime |-> t]],
              rec |-> FetchRec(url, ttl, T, t, f, e, FALSE, TRUE, e.net, TRUE,
                               FALSE, e.net, Deserialize(T, e.net))]
        ELSE [files |-> fs,
              rec |-> FetchRec(url, ttl, T, t, f, e, FALSE, TRUE, e.net, FALSE,
                               FALSE, "none", Err("Io"))]

\* The network branch storing a response only when it decodes.
GetFromNetwork_store_decoded(fs, t, url, ttl, T, e) ==
    LET path == Filename[url]
        f == fs[path]
        ok == Deserialize(T, e.net).kind = "Ok"
    IN  IF e.net \in NetFailures
        THEN [files |-> fs,
              rec |-> FetchRec(url, ttl, T, t, f, e, FALSE, TRUE, "none",
                               FALSE, FALSE, "none", Err("Reqwest"))]
        ELSE [files |-> IF e.write /\ ok
                        THEN [fs EXCEPT ![path] =
                                 [present |-> TRUE, body |-> e.net,
                                  mtime |-> t]]
                        ELSE fs,
              rec |-> FetchRec(url, ttl, T, t, f, e, FALSE, TRUE, e.net,
                               e.write /\ ok, ~e.write, e.net,
                               Deserialize(T, e.net))]

\* The branch of github.rs:216-226.
GetFromNetwork(fs, t, url, ttl, T, e) ==
    LET path == Filename[url]
        f == fs[path]
    IN  IF e.net \in NetFailures
        THEN [files |-> fs,
              rec |-> FetchRec(url, ttl, T, t, f, e, FALSE, TRUE, "none",
                               FALSE, FALSE, "none", Err("Reqwest"))]
        ELSE [files |-> IF e.write
                        THEN [fs EXCEPT ![path] =
                                 [present |-> TRUE, body |-> e.net,
                                  mtime |-> t]]
                        ELSE fs,
              rec |-> FetchRec(url, ttl, T, t, f, e, FALSE, TRUE, e.net,
                               e.write, ~e.write, e.net,
                               Deserialize(T, e.net))]

Get(fs, t, url, ttl, T, e) ==
    IF ~e.mkdir THEN GetPanics(fs, t, url, ttl, T, e)
    ELSE IF cache_is_fresh(fs[Filename[url]], ttl, t, e)
    THEN GetFromCache(fs, t, url, ttl, T, e)
    ELSE GetFromNetwork(fs, t, url, ttl, T, e)

(***************************************************************************)
(* The operations built on get (github.rs:231-239, 155-164).               *)
(***************************************************************************)
\* Client::notifications
notifications(fs, t, e) ==
    Get(fs, t, NOTIFICATIONS_URL, Ttl(0), "Notifications", e)

\* current_user with the TTL of details.
current_user_ttl_details(fs, t, e) ==
    Get(fs, t, SELF_URL, Ttl(TTL_DETAILS), "User", e)

\* Client::current_user
current_user(fs, t, e) == Get(fs, t, SELF_URL, Ttl(TTL_SELF), "User", e)

\* details choosing the type by the subject's URL, not by its tag.
details_by_url(fs, t, subject, e) ==
    IF subject.url = IssueA
    THEN Get(fs, t, subject.url, Ttl(TTL_DETAILS), "Issue", e)
    ELSE Get(fs, t, subject.url, Ttl(TTL_DETAILS), "PullRequest", e)

\* NotificationSubject::details: the type asked of get is the subject's tag,
\* and the variant of the result is the type decoded.
details(fs, t, subject, e) ==
    IF subject.stype = "Issue"
    THEN Get(fs, t, subject.url, Ttl(TTL_DETAILS), "Issue", e)
    ELSE Get(fs, t, subject.url, Ttl(TTL_DETAILS), "PullRequest", e)

(***************************************************************************)
(* NotificationLevel::of (main.rs:15-36).                                  *)
(***************************************************************************)
Reasons == KnownReasons \cup {"other"}

\* A comparison with the first requested reviewer only.
AnyReviewerIs_first(reviewers, id) ==
    Len(reviewers) >= 1 /\ reviewers[1] = id

\* pr.requested_reviewers.iter().any(|user| user.id == me.id), main.rs:25
AnyReviewerIs(reviewers, id) ==
    \E i \in 1..Len(reviewers) : reviewers[i] = id

\* The table with TeamMention in the arm of Assign and Mention.
LevelOfReason_team_tagged(reason) ==
    CASE reason \in {"author", "ci_activity", "security_alert"} -> "Owned"
      [] reason \in {"comment", "manual", "subscribed"} -> "Subscribed"
      [] reason \in {"assign", "mention", "team_mention"} -> "Tagged"
      [] OTHER -> "Other"

\* The arms of the match that make no fetch (main.rs:18-20, 32-33).
LevelOfReason(reason) ==
    CASE reason \in {"author", "ci_activity", "security_alert"} -> "Owned"
      [] reason \in {"comment", "manual", "subscribed"} -> "Subscribed"
      [] reason \in {"assign", "mention"} -> "Tagged"
      [] reason = "team_mention" -> "TeamTagged"
      [] OTHER -> "Other"

OfRec(fs, fetches, kind, level) ==
    [files |-> fs, fetches |-> fetches, kind |-> kind, level |-> level]

\* The ReviewRequested arm with no arm for an Issue: the current user is
\* fetched and compared whatever the subject resolved to.
OfReviewRequested_no_issue_arm(fs, t, notif, e1, e2) ==
    LET d == details(fs, t, notif, e1) IN
    IF d.rec.result.kind # "Ok"
    THEN OfRec(d.files, <<d.rec>>, d.rec.result.kind, "none")
    ELSE LET me == current_user(d.files, t, e2) IN
         IF me.rec.result.kind # "Ok"
         THEN OfRec(me.files, <<d.rec, me.rec>>, me.rec.result.kind, "none")
         ELSE OfRec(me.files, <<d.rec, me.rec>>, "Ok",
                    IF AnyReviewerIs(d.rec.result.val.reviewers,
                                     me.rec.result.val.id)
                    THEN "Tagged" ELSE "TeamTagged")

\* The ReviewRequested arm (main.rs:21-31): e1 is the environment of the
\* subject fetch, e2 that of the current-user fetch.
OfReviewRequested(fs, t, notif, e1, e2) ==
    LET d == details(fs, t, notif, e1) IN
    IF d.rec.result.kind # "Ok"
    THEN OfRec(d.files, <<d.rec>>, d.rec.result.kind, "none")
    ELSE IF d.rec.result.val.ty = "PullRequest"
    THEN LET me == current_user(d.files, t, e2) IN
         IF me.rec.result.kind # "Ok"
         THEN OfRec(me.files, <<d.rec, me.rec>>, me.rec.result.kind, "none")
         ELSE OfRec(me.files, <<d.rec, me.rec>>, "Ok",
                    IF AnyReviewerIs(d.rec.result.val.reviewers,
                                     me.rec.result.val.id)
                    THEN "Tagged" ELSE "TeamTagged")
    ELSE OfRec(d.files, <<d.rec>>, "Ok", "Tagged")

Of(fs, t, notif, e1, e2) ==
    IF notif.reason = "review_requested"
    THEN OfReviewRequested(fs, t, notif, e1, e2)
    ELSE OfRec(fs, <<>>, "Ok", LevelOfReason(notif.reason))

(***************************************************************************)
(* The state: the clock, the cache directory, and the last operation with  *)
(* the fetches it made (Idle when the latest step was no operation of the   *)
(* program).  stored is history: for each URL, the body that    *)
(* the latest fetch of that URL took from the network and wrote.  scope    *)
(* says which inputs a behaviour draws: a wide behaviour makes up to       *)
(* MaxOps operations with every input and every fault, a deep behaviour    *)
(* up to MaxDeepOps fetches of the pull-request URLs with no fault.        *)
(* keyed holds one path and the file names to_filename derived for it.     *)
(* undecoded is history: for each URL, the cache entry that the latest     *)
(* writing fetch of that URL wrote when its body did not decode.  batch is *)
(* the run of main over one notification list (NoBatch outside it).        *)
(***************************************************************************)
VARIABLES now, files, last, stored, nops, scope, keyed, undecoded, batch

vars == <<now, files, last, stored, nops, scope, keyed, undecoded, batch>>

SubjectUrls == {PullA, PullB, IssueA}

DeepUrls == {PullA, PullB}

Notifs == [reason : Reasons, stype : SubjectTypes, url : SubjectUrls]

NoNotif == [reason |-> "none", stype |-> "none", url |-> "none"]

\* A notification as the state shows it.
Shown(notif) == [notif EXCEPT !.url = UrlName[notif.url]]

\* The instants of the clock: the ages of a file at them fall on both sides
\* of both TTLs, at the boundary and next to it.
Instants == {0, 1, TTL_DETAILS, TTL_SELF}

\* The type a URL's resource decodes to.
TypeOf(url) ==
    CASE url = NOTIFICATIONS_URL -> "Notifications"
      [] url = SELF_URL -> "User"
      [] url = IssueA -> "Issue"
      [] OTHER -> "PullRequest"

\* stored after the fetches of one operation, in order.
RECURSIVE StoredAfter(_, _)
StoredAfter(st, fetches) ==
    IF fetches = <<>> THEN st
    ELSE LET r == Head(fetches) IN
         StoredAfter(IF r.wrote THEN [st EXCEPT ![r.url] = r.response] ELSE st,
                     Tail(fetches))

\* No entry of a URL is known not to decode.
Decoded == [some |-> FALSE, body |-> "none", mtime |-> 0, T |-> "none"]

\* undecoded after the fetches of one operation, in order: a fetch that
\* wrote its response sets the entry of its URL, to what it wrote if the
\* body did not decode, to Decoded if it did.
RECURSIVE UndecodedAfter(_, _)
UndecodedAfter(un, fetches) ==
    IF fetches = <<>> THEN un
    ELSE LET r == Head(fetches)
             entry == IF r.result.kind = "Deserialize"
                      THEN [some |-> TRUE, body |-> r.response,
                            mtime |-> r.now, T |-> r.T]
                      ELSE Decoded
         IN  UndecodedAfter(IF r.wrote THEN [un EXCEPT ![r.url] = entry]
                            ELSE un,
                            Tail(fetches))

NoKeyed == [path |-> <<>>, done |-> FALSE, full |-> <<>>, bare |-> <<>>]

\* main has not fetched the notification list.
NoBatch ==
    [pc |-> "start", body |-> "none", list |-> <<>>, idx |-> 0,
     classified |-> <<>>,
     levels |-> <<>>, rendered |-> <<>>, userLog |-> <<>>,
     writesOk |-> TRUE, agesKnown |-> TRUE, started |-> 0,
     error |-> "none", failedAt |-> 0]

Idle ==
    [op |-> "none", notif |-> NoNotif, fetches |-> <<>>, kind |-> "Ok",
     val |-> NoValue, level |-> "none"]

Init ==
    /\ now = 0
    /\ files = [k \in Keys |-> NoFile]
    /\ last = Idle
    /\ stored = [u \in UrlNames |-> "none"]
    /\ nops = 0
    /\ scope \in {"wide", "deep"}
    /\ keyed = NoKeyed
    /\ undecoded = [u \in UrlNames |-> Decoded]
    /\ batch = NoBatch

\* Whether the behaviour may make one more operation.
MoreOps == nops < (IF scope = "wide" THEN MaxOps ELSE MaxDeepOps)

\* Whether one more fetch of url may be made, and the environments it draws
\* from.
MayFetch(url) == MoreOps /\ (scope = "deep" => url \in DeepUrls)

EnvsOf(fs, t, url, ttl) ==
    IF scope = "wide" THEN EnvsFor(url, fs[Filename[url]], ttl, t)
    ELSE DeepEnvsFor(url, fs[Filename[url]], ttl, t)

\* One fetch completes: r is what Get gave, notif the notification whose
\* subject was asked for (NoNotif for a fetch of no subject).
FetchedFor(op, notif, r) ==
    /\ files' = r.files
    /\ last' = [op |-> op, notif |-> notif, fetches |-> <<r.rec>>,
                kind |-> r.rec.result.kind, val |-> r.rec.result.val,
                level |-> "none"]
    /\ stored' = StoredAfter(stored, <<r.rec>>)
    /\ undecoded' = UndecodedAfter(undecoded, <<r.rec>>)
    /\ nops' = nops + 1
    /\ UNCHANGED <<now, scope, keyed, batch>>

Fetched(op, r) == FetchedFor(op, NoNotif, r)

\* Client::get with no TTL ("No ttl means cache never expires"): no caller
\* in the program passes None, so the call is made here for every URL.
GetAct ==
    \E url \in Urls :
       /\ MayFetch(url)
       /\ \E e \in EnvsOf(files, now, url, NoTtl) :
             \E r \in {Get(files, now, url, NoTtl, TypeOf(url), e)} :
                Fetched("get", r)

NotificationsAct ==
    /\ MayFetch(NOTIFICATIONS_URL)
    /\ \E e \in EnvsOf(files, now, NOTIFICATIONS_URL, Ttl(0)) :
          \E r \in {notifications(files, now, e)} :
             Fetched("notifications", r)

CurrentUserAct ==
    /\ MayFetch(SELF_URL)
    /\ \E e \in EnvsOf(files, now, SELF_URL, Ttl(TTL_SELF)) :
          \E r \in {current_user(files, now, e)} :
             Fetched("current_user", r)

DetailsAct ==
    \E stype \in SubjectTypes, url \in SubjectUrls :
       /\ MayFetch(url)
       /\ \E e \in EnvsOf(files, now, url, Ttl(TTL_DETAILS)) :
             LET subject == [reason |-> "none", stype |-> stype, url |-> url]
             IN  \E r \in {details(files, now, subject, e)} :
                    FetchedFor("details", Shown(subject), r)

\* One classification completes: r is what Of gave.
Classified(notif, r) ==
    /\ files' = r.files
    /\ last' = [op |-> "of", notif |-> Shown(notif), fetches |-> r.fetches,
                kind |-> r.kind, val |-> NoValue, level |-> r.level]
    /\ stored' = StoredAfter(stored, r.fetches)
    /\ undecoded' = UndecodedAfter(undecoded, r.fetches)
    /\ nops' = nops + 1
    /\ UNCHANGED <<now, scope, keyed, batch>>

\* NotificationLevel::of for a reason of the table: no fetch is made.
OfTableAct ==
    /\ scope = "wide"
    /\ MoreOps
    /\ \E notif \in Notifs :
          /\ notif.reason # "review_requested"
          /\ \E r \in {Of(files, now, notif, DefaultEnv, DefaultEnv)} :
                Classified(notif, r)

\* NotificationLevel::of for ReviewRequested: the subject fetch, and, for a
\* pull request, the current-user fetch.
OfReviewAct ==
    /\ scope = "wide"
    /\ MoreOps
    /\ \E notif \in Notifs :
          /\ notif.reason = "review_requested"
          /\ \E e1 \in EnvsOf(files, now, notif.url, Ttl(TTL_DETAILS)) :
                \E d \in {details(files, now, notif, e1)} :
                \E e2 \in IF d.rec.result.kind = "Ok"
                               /\ d.rec.result.val.ty = "PullRequest"
                           THEN EnvsOf(d.files, now, SELF_URL, Ttl(TTL_SELF))
                           ELSE {DefaultEnv} :
                \E r \in {Of(files, now, notif, e1, e2)} :
                   Classified(notif, r)

\* Time passes, to a later instant, before a further operation.
Tick ==
    /\ MoreOps
    /\ \E t \in Instants : t > now /\ now' = t
    /\ last' = Idle
    /\ UNCHANGED <<files, stored, nops, scope, keyed, undecoded, batch>>

\* The system clock is set back (SystemTime is not monotonic).
ClockBack ==
    /\ MoreOps
    /\ \E t \in Instants : t < now /\ now' = t
    /\ last' = Idle
    /\ UNCHANGED <<files, stored, nops, scope, keyed, undecoded, batch>>

\* The user clears a cache entry by hand.
RemoveFile ==
    /\ MoreOps
    /\ \E k \in Keys :
          /\ files[k].present
          /\ files' = [files EXCEPT ![k] = NoFile]
    /\ last' = Idle
    /\ UNCHANGED <<now, stored, nops, scope, keyed, undecoded, batch>>

Next ==
    \/ GetAct
    \/ NotificationsAct
    \/ CurrentUserAct
    \/ DetailsAct
    \/ OfTableAct
    \/ OfReviewAct
    \/ Tick
    \/ ClockBack
    \/ RemoveFile

Spec == Init /\ [][Next]_vars

(***************************************************************************)
(* to_filename on its own: a path p is drawn, and the file names of        *)
(* API_PREFIX + p and of p are derived.                                    *)
(***************************************************************************)
PathChars == {"a", "B", "1", "-", ".", "_", "/", ":"}

RECURSIVE SeqsUpTo(_)
SeqsUpTo(n) ==
    IF n = 0 THEN {<<>>}
    ELSE LET shorter == SeqsUpTo(n - 1) IN
         shorter \cup {Append(q, c) : q \in shorter, c \in PathChars}

Paths ==
    SeqsUpTo(MaxPathLen)
        \cup {StripPrefixOrSame(u, API_PREFIX) : u \in Urls}
        \cup Urls

InitKey ==
    /\ now = 0
    /\ files = [k \in Keys |-> NoFile]
    /\ last = Idle
    /\ stored = [u \in UrlNames |-> "none"]
    /\ nops = 0
    /\ scope = "wide"
    /\ keyed \in {[NoKeyed EXCEPT !.path = p] : p \in Paths}
    /\ undecoded = [u \in UrlNames |-> Decoded]
    /\ batch = NoBatch

DeriveKeys ==
    /\ ~keyed.done
    /\ keyed' = [keyed EXCEPT !.done = TRUE,
                              !.full = to_filename(API_PREFIX \o keyed.path),
                              !.bare = to_filename(keyed.path)]
    /\ UNCHANGED <<now, files, last, stored, nops, scope, undecoded, batch>>

NextKey == DeriveKeys

SpecKey == InitKey /\ [][NextKey]_vars

(***************************************************************************)
(* main (main.rs:82-95): the notification list is fetched and unwrapped;   *)
(* then, for each notification in turn, of is called and unwrapped, the    *)
(* subject is resolved again and unwrapped, and the notification is        *)
(* rendered.  Time passes between the calls.  A run starts with an empty   *)
(* cache or with what an earlier run left.                                 *)
(***************************************************************************)
UrlOfName == [n \in UrlNames |-> CHOOSE u \in Urls : UrlName[u] = n]

\* The notification as decoded, from the notification as the state shows it.
Unshown(shown) == [shown EXCEPT !.url = UrlOfName[shown.url]]

\* The environments of one fetch of main: those of EnvsFor, and the one in
\* which the cache directory cannot be created.
EnvsMainFor(url, f, ttl, t) ==
    EnvsFor(url, f, ttl, t) \cup {[DefaultEnv EXCEPT !.mkdir = FALSE]}

EnvsMain(fs, t, url, ttl) == EnvsMainFor(url, fs[Filename[url]], ttl, t)

\* What a call of current_user did, for the batch's log.
UserCall(r) ==
    IF r.requested THEN "net" ELSE IF r.fresh THEN "cache" ELSE "panic"

\* The batch after noting the fetches of one call: the current_user calls,
\* whether every write so far succeeded, and whether every check of the
\* current user's cache file could tell its age.
RECURSIVE Noted(_, _)
Noted(b, fetches) ==
    IF fetches = <<>> THEN b
    ELSE LET r == Head(fetches)
             self == r.url = UrlName[SELF_URL]
         IN  Noted([b EXCEPT
                       !.userLog = IF self THEN Append(@, UserCall(r)) ELSE @,
                       !.writesOk = @ /\ (r.response # "none" => r.wrote),
                       !.agesKnown =
                           @ /\ ((self /\ r.dirOk /\ r.before.present)
                                    => (r.exists /\ r.metaOk /\ r.mtimeOk))],
                   Tail(fetches))

\* An unwrap that logs the error and goes on to the next notification.
Unwrapped_skip(b, kind, next) ==
    IF kind = "Ok" THEN next
    ELSE [b EXCEPT !.error = kind, !.failedAt = b.idx,
                   !.idx = b.idx + 1,
                   !.pc = IF b.idx + 1 > Len(b.list) THEN "done" ELSE "of"]

\* Result::unwrap (main.rs:84-86): the batch goes on as next when the call
\* returned Ok; on an error, and when the call itself panicked, the process
\* ends.
Unwrapped(b, kind, next) ==
    IF kind = "Ok" THEN next
    ELSE [b EXCEPT !.pc = "panicked", !.error = kind, !.failedAt = b.idx]

\* What an earlier run of the program left in the cache directory.
EarlierCaches ==
    {[k \in Keys |-> NoFile],
     [[k \in Keys |-> NoFile] EXCEPT
         ![Filename[SELF_URL]] =
             [present |-> TRUE, body |-> "user42", mtime |-> 0]]}

InitMain ==
    /\ now = 0
    /\ files \in EarlierCaches
    /\ last = Idle
    /\ stored = [u \in UrlNames |-> "none"]
    /\ nops = 0
    /\ scope = "wide"
    /\ keyed = NoKeyed
    /\ undecoded = [u \in UrlNames |-> Decoded]
    /\ batch = NoBatch

\* One call of main completes: fs is the cache directory after it, b the
\* batch, and the rest what the call did.  Of a call that returned Ok the
\* batch keeps what Noted logs and last the call alone; of the call that
\* ended the batch last keeps the failing fetch too (the last one the call
\* made).  The histories stored and undecoded are not kept during main.
MainCalled(fs, b, op, notif, fetches, kind, val, level) ==
    /\ files' = fs
    /\ batch' = b
    /\ last' = [op |-> op, notif |-> notif,
                fetches |-> IF kind = "Ok" THEN <<>>
                            ELSE <<fetches[Len(fetches)]>>,
                kind |-> kind, val |-> NoValue, level |-> level]
    /\ UNCHANGED <<now, stored, nops, scope, keyed, undecoded>>

\* main.rs:83-84: client.notifications(), unwrapped.
MainNotifications ==
    /\ batch.pc = "start"
    /\ \E e \in EnvsMain(files, now, NOTIFICATIONS_URL, Ttl(0)) :
       \E r \in {notifications(files, now, e)} :
       \E b \in {Noted([batch EXCEPT !.started = now, !.body = r.rec.body],
                       <<r.rec>>)} :
          LET res == r.rec.result
              list == [i \in 1..Len(res.val.items) |-> Shown(res.val.items[i])]
          IN  MainCalled(r.files,
                         Unwrapped(b, res.kind,
                                   [b EXCEPT !.list = list, !.idx = 1,
                                             !.pc = IF list = <<>> THEN "done"
                                                    ELSE "of"]),
                         "notifications", NoNotif, <<r.rec>>, res.kind,
                         res.val, "none")

\* The batch after of returned r for the notification at idx.
MainOfDone(r) ==
    LET b == Noted(batch, r.fetches) IN
    Unwrapped(b, r.kind,
              [b EXCEPT !.classified = Append(@, b.idx),
                        !.levels = Append(@, r.level),
                        !.pc = "details"])

\* main.rs:85: NotificationLevel::of(&notif, &client), unwrapped.
MainOf ==
    /\ batch.pc = "of"
    /\ \E shown \in {batch.list[batch.idx]} :
       \E notif \in {Unshown(shown)} :
          IF notif.reason # "review_requested"
          THEN \E r \in {Of(files, now, notif, DefaultEnv, DefaultEnv)} :
                  MainCalled(r.files, MainOfDone(r), "of", shown, r.fetches,
                             r.kind, NoValue, r.level)
          ELSE \E e1 \in EnvsMain(files, now, notif.url, Ttl(TTL_DETAILS)) :
               \E d \in {details(files, now, notif, e1)} :
               \E e2 \in IF d.rec.result.kind = "Ok"
                              /\ d.rec.result.val.ty = "PullRequest"
                          THEN EnvsMain(d.files, now, SELF_URL, Ttl(TTL_SELF))
                          ELSE {DefaultEnv} :
               \E r \in {Of(files, now, notif, e1, e2)} :
                  MainCalled(r.files, MainOfDone(r), "of", shown, r.fetches,
                             r.kind, NoValue, r.level)

\* main.rs:86-94: notif.subject.details(&client), unwrapped, and the two
\* lines printed for the notification.
MainDetails ==
    /\ batch.pc = "details"
    /\ \E shown \in {batch.list[batch.idx]} :
       \E notif \in {Unshown(shown)} :
       \E e \in EnvsMain(files, now, notif.url, Ttl(TTL_DETAILS)) :
       \E r \in {details(files, now, notif, e)} :
       \E b \in {Noted(batch, <<r.rec>>)} :
                  MainCalled(r.files,
                             Unwrapped(b, r.rec.result.kind,
                                       [b EXCEPT
                                           !.rendered = Append(@, b.idx),
                                           !.idx = b.idx + 1,
                                           !.pc = IF b.idx + 1 > Len(b.list)
                                                  THEN "done" ELSE "of"]),
                             "details", shown, <<r.rec>>, r.rec.result.kind,
                             r.rec.result.val, "none")

\* The instants of the clock during main: the start, and the ends of the
\* two TTLs after it.
MainInstants == {0, TTL_DETAILS, TTL_SELF}

\* Time passes, to a later instant, while main runs or before it starts.
MainTick ==
    /\ batch.pc \notin {"done", "panicked"}
    /\ \E t \in MainInstants : t > now /\ now' = t
    /\ last' = Idle
    /\ UNCHANGED <<files, stored, nops, scope, keyed, undecoded, batch>>

NextMain ==
    \/ MainNotifications
    \/ MainOf
    \/ MainDetails
    \/ MainTick

SpecMain == InitMain /\ [][NextMain]_vars

(***************************************************************************)
(* The claims.                                                             *)
(***************************************************************************)
\* The fetches of the operation just made.
LastFetches == {last.fetches[i] : i \in 1..Len(last.fetches)}

\* The age of the cache file a fetch found, a modification time later than
\* the clock counting as zero.
AgeFound(r) == IF r.now >= r.before.mtime THEN r.now - r.before.mtime ELSE 0

ServedFromFile(r) == r.fresh /\ ~r.requested /\ r.response = "none"

WentToNetwork(r) == ~r.fresh /\ r.requested

\* C1: a fetch with a finite TTL > 0 whose cache file exists and has a
\* readable modification time is served from the file if and only if
\* now - mtime < TTL (a later mtime counting as age zero), and goes to the
\* network otherwise.
C1_TimedFreshness ==
    \A r \in LastFetches :
        (/\ r.ttl.some /\ r.ttl.secs > 0
         /\ r.before.present /\ r.exists /\ r.metaOk /\ r.mtimeOk)
        => /\ ServedFromFile(r) <=> AgeFound(r) < r.ttl.secs
           /\ WentToNetwork(r) <=> ~(AgeFound(r) < r.ttl.secs)

\* C1 witness: a file one second short of TTL_DETAILS old is served from the
\* cache.
C1_Witness ==
    \E r \in LastFetches :
        /\ r.ttl = Ttl(TTL_DETAILS) /\ r.exists
        /\ AgeFound(r) = TTL_DETAILS - 1
        /\ ServedFromFile(r)

\* C2: with no TTL a fetch is served from the cache if and only if the cache
\* file exists (as Path::exists tells), whatever its age; so a fetch of a URL
\* whose entry an earlier fetch wrote and nobody removed makes no request.
C2_NoTtlFreshIffExists ==
    \A r \in LastFetches :
        ~r.ttl.some
        => /\ ServedFromFile(r) <=> r.exists
           /\ WentToNetwork(r) <=> ~r.exists

\* C2 witness: a fetch with no TTL of a URL whose entry an earlier fetch
\* wrote a day before is served from the cache.
C2_Witness ==
    \E r \in LastFetches :
        /\ ~r.ttl.some /\ r.exists
        /\ stored[r.url] = r.before.body
        /\ AgeFound(r) = TTL_SELF
        /\ ServedFromFile(r) /\ r.body = r.before.body

\* The cache file of a fetch's URL holds the response, written at the time
\* of the fetch.
HoldsResponse(r) ==
    files[r.path] = [present |-> TRUE, body |-> r.response, mtime |-> r.now]

C4_RoundTrip ==
    \A r \in LastFetches :
        (r.fresh /\ r.body # "none" /\ stored[r.url] # "none")
        => /\ r.body = stored[r.url]
           /\ r.result = Deserialize(r.T, stored[r.url])
           /\ ~r.requested

\* C5: for every reason other than ReviewRequested the level is that of the
\* table, no error is returned and no fetch (cache or network) is made.
C5_TableTotalNoFetch ==
    (last.op = "of" /\ last.notif.reason # "review_requested")
    => /\ last.kind = "Ok"
       /\ last.fetches = <<>>
       /\ last.notif.reason \in {"author", "ci_activity", "security_alert"}
             => last.level = "Owned"
       /\ last.notif.reason \in {"comment", "manual", "subscribed"}
             => last.level = "Subscribed"
       /\ last.notif.reason \in {"assign", "mention"}
             => last.level = "Tagged"
       /\ last.notif.reason = "team_mention" => last.level = "TeamTagged"
       /\ last.notif.reason \in {"invitation", "state_change", "other"}
             => last.level = "Other"

\* C5 witness: a "mention" notification classifies as Tagged with no fetch,
\* while the cache holds an entry.
C5_Witness ==
    /\ last.op = "of" /\ last.notif.reason = "mention"
    /\ last.level = "Tagged" /\ last.fetches = <<>>
    /\ \E k \in Keys : files[k].present

\* The ids of the users of a reviewer list.
ReviewerIds(reviewers) == {reviewers[i] : i \in 1..Len(reviewers)}

\* C6: ReviewRequested on a PullRequest subject, both fetches succeeding:
\* Tagged if the current user's id is among the requested reviewers' ids,
\* TeamTagged otherwise.
C6_ReviewRequestedPullRequest ==
    (/\ last.op = "of" /\ last.notif.reason = "review_requested"
     /\ last.notif.stype = "PullRequest"
     /\ Len(last.fetches) >= 1 /\ last.fetches[1].result.kind = "Ok")
    => /\ Len(last.fetches) = 2
       /\ last.fetches[2].url = UrlName[SELF_URL]
       /\ last.fetches[2].result.kind = "Ok"
             => /\ last.kind = "Ok"
                /\ last.level =
                      IF last.fetches[2].result.val.id
                            \in ReviewerIds(last.fetches[1].result.val.reviewers)
                      THEN "Tagged" ELSE "TeamTagged"

\* C6 witness: the current user (id 42) is the second requested reviewer.
C6_Witness ==
    /\ last.op = "of" /\ last.notif.stype = "PullRequest"
    /\ Len(last.fetches) = 2
    /\ last.fetches[1].result.kind = "Ok"
    /\ last.fetches[1].result.val.reviewers = <<9, 42>>
    /\ last.fetches[2].result.kind = "Ok"
    /\ last.fetches[2].result.val.id = 42
    /\ last.level = "Tagged"

\* C7: ReviewRequested on an Issue subject: the only fetch is that of the
\* subject, decoded as an Issue; once it is resolved the level is Tagged,
\* whatever the body lists as reviewers, and the current user is not fetched.
C7_ReviewRequestedIssue ==
    (/\ last.op = "of" /\ last.notif.reason = "review_requested"
     /\ last.notif.stype = "Issue")
    => /\ Len(last.fetches) = 1
       /\ last.fetches[1].url = last.notif.url
       /\ last.fetches[1].url # UrlName[SELF_URL]
       /\ last.fetches[1].T = "Issue"
       /\ last.kind = last.fetches[1].result.kind
       /\ last.kind = "Ok" => last.level = "Tagged"

\* C7 witness: the subject's body lists requested reviewers, and the level is
\* Tagged after one fetch.
C7_Witness ==
    /\ last.op = "of" /\ last.notif.reason = "review_requested"
    /\ last.notif.stype = "Issue"
    /\ Len(last.fetches) = 1
    /\ last.fetches[1].body = "pr_9_42"
    /\ last.kind = "Ok" /\ last.level = "Tagged"

\* C8: when the write of the cache file fails after a response arrived, the
\* fetch returns what decoding the response gives, never a storage I/O
\* error; a warning is printed and the cache file stays as it was.
C8_WriteFailureNonFatal ==
    \A r \in LastFetches :
        (r.requested /\ r.response # "none" /\ ~r.wrote)
        => /\ r.result = Deserialize(r.T, r.response)
           /\ r.result.kind # "Io"
           /\ r.warned
           /\ files[r.path] = r.before
           /\ Len(last.fetches) = 1 => last.kind = r.result.kind

\* C8 witness: the write fails and the current user is returned all the same.
C8_Witness ==
    /\ last.op = "current_user"
    /\ last.kind = "Ok" /\ last.val.id = 42
    /\ \E r \in LastFetches :
          r.requested /\ r.response = "user42" /\ ~r.wrote /\ r.warned

\* C9: every network error of a fetch (no connection, a timeout, a response
\* with a non-success status) is returned as the transport error kind.
C9_NetworkErrorsAreTransport ==
    \A r \in LastFetches :
        (r.requested /\ (r.response = "none" \/ Doc(r.response).status # 200))
        => r.result.kind = "Reqwest"

\* C10 as stated: for every path p, API_PREFIX + p and p give the same file
\* name.
C10_PrefixIrrelevant == keyed.done => keyed.full = keyed.bare

\* C10 as amended: for every path p that does not itself start with
\* API_PREFIX, API_PREFIX + p and p give the same file name.
C10_PrefixIrrelevantUnlessTwice ==
    (keyed.done /\ ~HasPrefix(keyed.path, API_PREFIX))
    => keyed.full = keyed.bare

\* C10 witness: the path of a pull request, with and without the prefix.
C10_Witness ==
    /\ keyed.done
    /\ keyed.path = StripPrefixOrSame(PullA, API_PREFIX)
    /\ keyed.full = keyed.bare
    /\ keyed.full = to_filename(PullA)

\* C11: no URL other than the one a fetch is made of has the cache file of
\* that fetch, so the body a fetch is served from the cache is the body that
\* the latest network fetch of its own URL wrote.
C11_DistinctUrlsDistinctKeys ==
    \A r \in LastFetches :
        /\ \A v \in Urls : UrlName[v] # r.url => Filename[v] # r.path
        /\ (ServedFromFile(r) /\ r.readOk) => r.body = stored[r.url]

\* A fetch found a cache file that could not be stat'ed, or whose metadata
\* or modification time could not be read.
AgeUnknown(r) ==
    r.before.present /\ (~r.exists \/ ~r.metaOk \/ ~r.mtimeOk)

\* C12 as stated: whatever the TTL (none, zero, timed), a fetch that finds a
\* file it cannot stat, or whose modification time cannot be read, goes to
\* the network.
C12_UnknownAgeIsStale ==
    \A r \in LastFetches : AgeUnknown(r) => WentToNetwork(r)

\* C12 as amended: a file that cannot be stat'ed is stale whatever the TTL;
\* a file whose metadata or modification time cannot be read is stale when
\* a TTL is given (zero or timed); with no TTL the modification time is not
\* read, and a file that can be stat'ed is served from the cache.
C12_UnknownAgeIsStaleUnderTtl ==
    \A r \in LastFetches :
        AgeUnknown(r)
        => /\ ~r.exists => WentToNetwork(r)
           /\ (r.exists /\ r.ttl.some) => WentToNetwork(r)
           /\ (r.exists /\ ~r.ttl.some) => ServedFromFile(r)

\* C12 witness: current_user() finds a file written in the same instant
\* whose modification time cannot be read, and goes to the network.
C12_Witness ==
    /\ last.op = "current_user"
    /\ \E r \in LastFetches :
          /\ r.before.present /\ r.exists /\ r.metaOk /\ ~r.mtimeOk
          /\ r.before.mtime = r.now
          /\ WentToNetwork(r)

\* The notification list as the response gave it to main.
RawList == Doc(batch.body).items

\* C13: when the list main decoded holds a notification whose reason is
\* none of the twelve known, the whole list is decoded, that notification
\* has the reason Other, and once classified its level is Other; of does
\* not fail on it.
C13_UnknownReasonIsOther ==
    (batch.body # "none" /\ Deserialize("Notifications", batch.body).kind = "Ok")
    => /\ batch.error # "Deserialize" \/ batch.failedAt > 0
       /\ Len(batch.list) = Len(RawList)
       /\ \A i \in 1..Len(RawList) :
             RawList[i].reason \notin KnownReasons
             => /\ batch.list[i].reason = "other"
                /\ i <= Len(batch.levels) => batch.levels[i] = "Other"
                /\ batch.failedAt = i => batch.pc = "panicked"
                                           /\ last.op = "details"

\* C13 witness: the second notification of the list has the reason
\* "approval_requested"; it was decoded as Other and classified as Other.
C13_Witness ==
    /\ Len(RawList) = 3 /\ RawList[2].reason = "approval_requested"
    /\ batch.list[2].reason = "other"
    /\ Len(batch.levels) >= 2 /\ batch.levels[2] = "Other"

\* C14: a fetch whose cache entry is fresh and whose read of the file fails
\* returns a storage I/O error and makes no network request; the file is
\* left as it was.
C14_ReadFailureIsIoError ==
    \A r \in LastFetches :
        (r.fresh /\ ~r.readOk)
        => /\ r.result = Err("Io")
           /\ ~r.requested /\ r.response = "none"
           /\ files[r.path] = r.before
           /\ Len(last.fetches) = 1 => last.kind = "Io"

\* C14 witness: the subject of a notification is fresh in the cache and
\* cannot be read: details returns the I/O error.
C14_Witness ==
    /\ last.op = "details" /\ last.kind = "Io"
    /\ \E r \in LastFetches :
          /\ r.before.present /\ r.fresh /\ ~r.readOk
          /\ AgeFound(r) < TTL_DETAILS /\ ~r.requested

\* C15: when the cache directory cannot be created, the fetch returns a
\* storage I/O error to its caller.
C15_DirFailureIsIoResult ==
    \A r \in LastFetches :
        ~r.dirOk => r.result.kind = "Io" /\ last.kind = "Io"

\* The numbers 1, 2, .. in order.
InOrder(seq) == seq = [i \in 1..Len(seq) |-> i]

\* How many calls of current_user went to the network.
UserRequests ==
    Cardinality({i \in 1..Len(batch.userLog) : batch.userLog[i] = "net"})

\* C16: main classifies and renders the notifications in list order, one
\* at a time: each is classified once and rendered once, the next one is
\* classified only after this one is rendered; the first call that fails
\* ends the batch, and after it no file and nothing of the batch changes.
C16_InOrderAbortOnFirstFailure ==
    [][ /\ InOrder(batch'.classified) /\ InOrder(batch'.rendered)
        /\ Len(batch'.classified) - Len(batch'.rendered) \in {0, 1}
        /\ batch'.idx >= batch.idx
        /\ Len(batch'.classified) <= batch'.idx
        /\ last'.kind # "Ok"
              => /\ batch'.pc = "panicked" /\ batch'.error = last'.kind
                 /\ batch'.failedAt = batch.idx
                 /\ batch'.rendered = batch.rendered
        /\ batch.error # "none" => (files' = files /\ batch' = batch)
      ]_vars

\* C16 witness: the first notification was rendered, the subject fetch of
\* the second one failed, and the third was never classified.
C16_Witness ==
    /\ batch.pc = "panicked" /\ batch.failedAt = 2
    /\ Len(batch.list) = 3
    /\ batch.classified = <<1, 2>> /\ batch.rendered = <<1>>
    /\ last.op = "details" /\ last.kind = "Reqwest"

\* C17 as stated: while the batch has lasted less than 24 hours and every
\* cache write has succeeded, at most one call of current_user has gone to
\* the network.
C17_UserRequestedOnce ==
    (batch.writesOk /\ now - batch.started < TTL_SELF) => UserRequests <= 1

\* C17 as amended: while the batch has lasted less than 24 hours, every
\* cache write has succeeded, and every check of the current user's cache
\* file could stat it and read its modification time, at most one call of
\* current_user has gone to the network.
C17_UserRequestedOnceIfAgeKnown ==
    (batch.writesOk /\ batch.agesKnown /\ now - batch.started < TTL_SELF)
    => UserRequests <= 1

\* C17 witness: two ReviewRequested pull requests, the second classified
\* 24 hours less a minute after the first: the current user was requested
\* for the first and served from the cache for the second.
C17_Witness ==
    /\ batch.userLog = <<"net", "cache">>
    /\ batch.writesOk /\ batch.agesKnown
    /\ batch.started = TTL_DETAILS /\ now = TTL_SELF

\* C18: the subject fetch of details and of the ReviewRequested arm asks for
\* the type of the subject's tag, and a subject that resolves is the variant
\* of that tag, whatever body the cache or the network gave.
C18_VariantIsTag ==
    (last.op \in {"details", "of"} /\ last.fetches # <<>>)
    => /\ last.fetches[1].T = last.notif.stype
       /\ last.fetches[1].result.kind = "Ok"
             => last.fetches[1].result.val.ty = last.notif.stype

\* C18 witness: details with the tag Issue is given the body of a pull
\* request by the network and returns the Issue variant.
C18_Witness ==
    /\ last.op = "details" /\ last.notif.stype = "Issue"
    /\ last.fetches[1].requested
    /\ last.fetches[1].response = "pr_9_42"
    /\ last.kind = "Ok" /\ last.val.ty = "Issue"

\* The cache file a fetch found is the entry that the latest writing fetch
\* of the same URL wrote, with a body that did not decode.
FoundUndecoded(r) ==
    /\ undecoded[r.url].some
    /\ r.before = [present |-> TRUE, body |-> undecoded[r.url].body,
                   mtime |-> undecoded[r.url].mtime]

\* C19 as stated: a response is written to the cache file as it came,
\* whether it decodes or not (unless the write fails); once a fetch wrote a
\* body that did not decode, every fetch of the same URL that finds that
\* entry fresh ends in a decode error and makes no request.
C19_DecodeErrorPersists ==
    \A r \in LastFetches :
        /\ (r.requested /\ r.response # "none" /\ ~r.warned)
              => r.wrote /\ HoldsResponse(r)
        /\ (FoundUndecoded(r) /\ r.fresh)
              => r.result.kind = "Deserialize" /\ ~r.requested

\* C19 as amended: a response is written to the cache file as it came,
\* whether it decodes or not (unless the write fails); once a fetch wrote a
\* body that did not decode, every fetch of the same URL that finds that
\* entry fresh makes no request, and ends in a decode error if it reads the
\* file and asks for the same type, in a storage I/O error if it cannot read
\* the file.
C19_DecodeErrorPersistsForType ==
    \A r \in LastFetches :
        /\ (r.requested /\ r.response # "none" /\ ~r.warned)
              => r.wrote /\ HoldsResponse(r)
        /\ (FoundUndecoded(r) /\ r.fresh)
              => /\ ~r.requested
                 /\ (r.readOk /\ r.T = undecoded[r.url].T)
                       => r.result.kind = "Deserialize"
                 /\ ~r.readOk => r.result.kind = "Io"

\* C19 witness: a second after a subject fetch stored the error page of a
\* 502 response, the same fetch is served that page and fails to decode it.
C19_Witness ==
    /\ last.op = "details"
    /\ \E r \in LastFetches :
          /\ FoundUndecoded(r) /\ r.before.body = "html502"
          /\ r.before.mtime = 0 /\ r.now = 1
          /\ r.fresh /\ r.readOk /\ r.T = undecoded[r.url].T
          /\ r.result.kind = "Deserialize" /\ ~r.requested

\* The fetches of the operation the step makes.
NextFetches == {last'.fetches[i] : i \in 1..Len(last'.fetches)}

\* C20: a step of the program changes a cache file only by a fetch of a URL
\* of that file's key whose request returned a body (and whose write
\* succeeded); a fetch served from the cache and a fetch that fails with a
\* transport error change no file, neither content nor modification time.
\* (A step with no fetch that changes a file is the user clearing it.)
C20_OnlyNetworkWritesChange ==
    [][ /\ \A k \in Keys :
              (files'[k] # files[k] /\ last'.op # "none")
              => \E r \in NextFetches :
                    /\ r.path = k /\ r.requested /\ r.response # "none"
                    /\ r.wrote
                    /\ files'[k] = [present |-> TRUE, body |-> r.response,
                                    mtime |-> r.now]
        /\ (/\ last'.op # "none"
            /\ \A r \in NextFetches :
                  ServedFromFile(r) \/ r.result.kind = "Reqwest")
           => files' = files
      ]_vars

\* C20 witness: a fetch is served from the cache a second after the entry
\* was written, and the entry keeps its modification time.
C20_Witness ==
    \E r \in LastFetches :
        /\ ServedFromFile(r) /\ r.readOk
        /\ r.before.mtime = 0 /\ r.now = 1
        /\ files[r.path] = r.before

====
